---------------------------- MODULE Spec2Model ----------------------------
(***************************************************************************)
(* PyInstaller/utils/misc.py: mtime and compile_py_files.                  *)
(*                                                                         *)
(* Strings (module names, file names) are sequences of one-character       *)
(* strings, so that endswith, slicing, split, splitext, the substring test *)
(* and os.path.join are computed character by character.                   *)
(*                                                                         *)
(* The file system is a function from the names of the existing files to   *)
(* their stat time, content class and write permission, a set of existing  *)
(* directories and a set of writable directories.                          *)
(***************************************************************************)
EXTENDS Integers, Sequences, FiniteSets, TLC

(* ------------------------------ bounds -------------------------------- *)

\* longest manifest handed to compile_py_files
MaxToc == 2
\* largest stat time of a file before the first run; the clock starts above it
MaxMtime == 2
\* successive runs of compile_py_files by the one process of Spec
MaxRuns == 2

(* ------------------------------ strings ------------------------------- *)

\* s.endswith(suf)
EndsWith(s, suf) ==
    /\ Len(s) >= Len(suf)
    /\ SubSeq(s, Len(s) - Len(suf) + 1, Len(s)) = suf

\* s[:-1]
DropLast(s) == SubSeq(s, 1, Len(s) - 1)

\* sub in s
Contains(s, sub) ==
    \E i \in 1..(Len(s) - Len(sub) + 1) : SubSeq(s, i, i + Len(sub) - 1) = sub

\* the positions of character c in s
Positions(s, c) == {i \in 1..Len(s) : s[i] = c}

SetMax(S) == CHOOSE x \in S : \A y \in S : y <= x
SetMin(S) == CHOOSE x \in S : \A y \in S : x <= y

\* s.split(c): the pieces of s between the occurrences of c
RECURSIVE Split(_, _)
Split(s, c) ==
    IF Positions(s, c) = {} THEN <<s>>
    ELSE LET i == SetMin(Positions(s, c))
         IN  <<SubSeq(s, 1, i - 1)>> \o Split(SubSeq(s, i + 1, Len(s)), c)

\* os.path.splitext(p)[1]: from the last dot of the last component on,
\* empty when there is none or when only leading dots precede it
SplitExt(p) ==
    LET seps == Positions(p, "/")
        base == IF seps = {} THEN 0 ELSE SetMax(seps)
        dots == {i \in Positions(p, ".") : i > base}
        last == IF dots = {} THEN 0 ELSE SetMax(dots)
    IN  IF last = 0 \/ (\A j \in (base + 1)..(last - 1) : p[j] = ".")
        THEN <<>>
        ELSE SubSeq(p, last, Len(p))

\* os.path.join(a, b) on a POSIX system
Join2(a, b) ==
    IF Len(b) > 0 /\ b[1] = "/" THEN b
    ELSE IF a = <<>> \/ a[Len(a)] = "/" THEN a \o b
    ELSE a \o <<"/">> \o b

\* os.path.join(a, *parts)
RECURSIVE JoinAll(_, _)
JoinAll(a, parts) ==
    IF parts = <<>> THEN a ELSE JoinAll(Join2(a, Head(parts)), Tail(parts))

\* os.path.dirname(p)
Dirname(p) ==
    LET seps == Positions(p, "/")
    IN  IF seps = {} THEN <<>>
        ELSE IF SetMax(seps) = 1 THEN <<"/">>
        ELSE SubSeq(p, 1, SetMax(seps) - 1)

(* ----------------------------- literals ------------------------------- *)

DotPy    == <<".", "p", "y">>
InitName == <<"_", "_", "i", "n", "i", "t", "_", "_">>
LocalPycos == <<"l", "o", "c", "a", "l", "p", "y", "c", "o", "s">>
PYMODULE == "PYMODULE"
DATA     == "DATA"

\* imp.get_magic() of the running interpreter, and the tag of another one
CurMagic == <<3, 243, 13, 10>>
OldMagic == <<209, 242, 13, 10>>


\* the leading bytes of a Python source text ("impo")
TextHead == <<105, 109, 112, 111>>

\* workpath, and basepath = os.path.join(workpath, "localpycos")
WorkPath == <<"/", "t", "m", "p", "/", "b", "u", "i", "l", "d">>
basepath == Join2(WorkPath, LocalPycos)

(* --------------------------- the file system -------------------------- *)

\* A file: its stat time, its content class and whether it may be rewritten.
\*   "ok"  a well-formed source text     "bad" a malformed source text
\*   "cur" bytecode of this interpreter  "old" bytecode of another one
SourceData   == {"ok", "bad"}
BytecodeData == {"cur", "old"}

\* open(p, 'rb').read()[:4]
FirstFour(file) ==
    CASE file.data = "cur" -> CurMagic
      [] file.data = "old" -> OldMagic
      [] OTHER             -> TextHead

\* os.path.exists(p), for a file or a directory
PathExists(f, ds, p) == p \in DOMAIN f \/ p \in ds

\* f with file p (re)written
WriteFile(f, p, rec) ==
    [q \in (DOMAIN f) \cup {p} |-> IF q = p THEN rec ELSE f[q]]

\* open(p, 'wb') succeeds: an existing file must be writable, a new one
\* needs an existing writable directory
CanWrite(f, ds, wds, p) ==
    IF p \in DOMAIN f THEN f[p].wr
    ELSE Dirname(p) \in ds /\ Dirname(p) \in wds

\* directory d and every directory above it, up to the root
RECURSIVE Ancestors(_)
Ancestors(d) ==
    IF d = <<>> \/ d = <<"/">> THEN {} ELSE {d} \cup Ancestors(Dirname(d))

(* --------------------------- the functions ---------------------------- *)

\* mtime(fnm): os.stat(fnm)[8], and 0 when the stat raises
mtime(f, fnm) == IF fnm \in DOMAIN f THEN f[fnm].mtime ELSE 0

\* the staleness expression without its second operand: only the stat
\* times are compared
needs_compile_by_mtime(f, src_fnm, obj_fnm) ==
    IF mtime(f, src_fnm) > mtime(f, obj_fnm) THEN "yes"
    ELSE IF obj_fnm \notin DOMAIN f THEN "raise"
    ELSE "no"

\* the staleness expression, evaluated left to right with a short-circuit
\* "or": "yes", "no", or "raise" when open(obj_fnm, 'rb') raises IOError
needs_compile(f, src_fnm, obj_fnm) ==
    IF mtime(f, src_fnm) > mtime(f, obj_fnm) THEN "yes"
    ELSE IF obj_fnm \notin DOMAIN f THEN "raise"
    ELSE IF FirstFour(f[obj_fnm]) # CurMagic THEN "yes"
    ELSE "no"

\* py_compile.compile(file, cfile) with doraise left False: the source is
\* opened (IOError when missing), compiled (an error is written to stderr
\* and the call returns), and cfile is opened for writing (IOError when
\* that is refused) and filled with the bytecode.
py_compile(f, ds, wds, clock, file, cfile) ==
    IF file \notin DOMAIN f
    THEN [res |-> "IOError", why |-> "source", fs |-> f]
    ELSE IF f[file].data # "ok"
    THEN [res |-> "quiet", why |-> "syntax", fs |-> f]
    ELSE IF ~CanWrite(f, ds, wds, cfile)
    THEN [res |-> "IOError", why |-> "dest", fs |-> f]
    ELSE [res |-> "ok", why |-> "none",
          fs  |-> WriteFile(f, cfile,
                     [mtime |-> clock, data |-> "cur",
                      wr |-> IF cfile \in DOMAIN f THEN f[cfile].wr ELSE TRUE])]

\* lines 198-209: (src_fnm, obj_fnm) of a PYMODULE entry's file name
ObjSuffix(opt)   == IF opt THEN <<"o">> ELSE <<"c">>
OtherSuffix(opt) == IF opt THEN <<"c">> ELSE <<"o">>

DerivePaths(f, ds, opt, fnm) ==
    IF EndsWith(fnm, DotPy)
    THEN [src |-> fnm,
          obj |-> IF PathExists(f, ds, fnm \o ObjSuffix(opt))
                  THEN fnm \o ObjSuffix(opt)
                  ELSE fnm \o OtherSuffix(opt)]
    ELSE [src |-> DropLast(fnm), obj |-> fnm]

\* lines 237-244: the directories and the base name under basepath
IsInitModule(obj_fnm) == Contains(obj_fnm, InitName)

LeadingParts(nm, obj_fnm) ==
    IF ~IsInitModule(obj_fnm) THEN DropLast(Split(nm, ".")) ELSE Split(nm, ".")

ModName(nm, obj_fnm) ==
    IF ~IsInitModule(obj_fnm)
    THEN Split(nm, ".")[Len(Split(nm, "."))]
    ELSE InitName

\* line 246
Leading(nm, obj_fnm) == JoinAll(basepath, LeadingParts(nm, obj_fnm))

\* line 251, with ext of line 235
RedirectedObj(nm, obj_fnm) ==
    Join2(Leading(nm, obj_fnm), ModName(nm, obj_fnm) \o SplitExt(obj_fnm))

\* line 258: the destination of the compile in the local directory
RedirectDest(fnm, redirected) == fnm

(* ------------------------ manifests and disks ------------------------- *)

\* ("a.b", "/ro/a/b.py"): a module given by its source
EntryLeaf ==
    << <<"a", ".", "b">>,
       <<"/", "r", "o", "/", "a", "/", "b", ".", "p", "y">>, PYMODULE >>
\* ("m", "/x/m.pyc"): a top-level module given by its bytecode
EntryObj ==
    << <<"m">>, <<"/", "x", "/", "m", ".", "p", "y", "c">>, PYMODULE >>
\* ("pkg", "/ro/pkg/__init__.py"): a package
EntryPkg ==
    << <<"p", "k", "g">>,
       <<"/", "r", "o", "/", "p", "k", "g", "/"
       >> \o InitName \o DotPy, PYMODULE >>
\* ("q.r", "/u/t__init__/r.py"): a module below a directory of that name
EntryDir ==
    << <<"q", ".", "r">>,
       <<"/", "u", "/", "t">> \o InitName \o <<"/", "r">> \o DotPy, PYMODULE >>
\* ("d", "/x/d.dat"): not a module
EntryData ==
    << <<"d">>, <<"/", "x", "/", "d", ".", "d", "a", "t">>, DATA >>

CodeEntries == {EntryLeaf, EntryObj, EntryPkg, EntryDir}

\* the bytecode files a module may have beside its source before the run
InPlaceNames(e) ==
    IF EndsWith(e[2], DotPy) THEN {e[2] \o <<"c">>, e[2] \o <<"o">>} ELSE {e[2]}

SourceName(e) == IF EndsWith(e[2], DotPy) THEN e[2] ELSE DropLast(e[2])

\* the directory under <workpath>/localpycos an earlier run made for it
CacheDir(e) ==
    CASE e = EntryLeaf -> Join2(basepath, <<"a">>)
      [] e = EntryObj  -> basepath
      [] e = EntryPkg  -> Join2(basepath, <<"p", "k", "g">>)
      [] e = EntryDir  -> JoinAll(basepath, << <<"q">>, <<"r">> >>)

\* and the bytecode files an earlier run may have left in it
CacheNames(e) ==
    CASE e = EntryLeaf -> {Join2(CacheDir(e), <<"b">> \o DotPy \o x) :
                              x \in {<<"c">>, <<"o">>}}
      [] e = EntryObj  -> {Join2(CacheDir(e), <<"m">> \o DotPy \o <<"c">>)}
      [] OTHER         -> {Join2(CacheDir(e), InitName \o DotPy \o x) :
                              x \in {<<"c">>, <<"o">>}}

NoFile == [mtime |-> -1, data |-> "none", wr |-> FALSE]

SourceStates ==
    {NoFile}
    \cup {[mtime |-> m, data |-> "ok", wr |-> w] :
             m \in 0..MaxMtime, w \in BOOLEAN}
    \cup {[mtime |-> MaxMtime, data |-> "bad", wr |-> TRUE]}

BytecodeStates(w) ==
    {[mtime |-> m, data |-> d, wr |-> w] : m \in 1..MaxMtime, d \in BytecodeData}

\* the disk built from a set of <<name, file>> pairs
MakeFS(pairs) ==
    LET live == {x \in pairs : x[2] # NoFile}
    IN  [p \in {x[1] : x \in live} |-> (CHOOSE x \in live : x[1] = p)[2]]

\* the disks module e may be found on: its source, none, one or both of its
\* in-place bytecode files (as writable as their directory), at most one
\* bytecode file in the local directory
Disks(e, w) ==
    { MakeFS({<<SourceName(e), s>>}
             \cup {<<n, IF n \in keep THEN a ELSE NoFile>> : n \in InPlaceNames(e)}
             \cup {<<n, IF n = cn THEN c ELSE NoFile>> : n \in CacheNames(e)}) :
        s \in SourceStates,
        a \in BytecodeStates(w),
        keep \in SUBSET InPlaceNames(e),
        cn \in CacheNames(e),
        c \in {NoFile} \cup {[mtime |-> 1, data |-> d, wr |-> TRUE] :
                               d \in BytecodeData} }

\* manifests: one module and pass-through entries, up to MaxToc entries
RECURSIVE SeqsUpTo(_, _)
SeqsUpTo(S, n) ==
    IF n = 0 THEN {<<>>}
    ELSE SeqsUpTo(S, n - 1)
         \cup {Append(t, x) : t \in {u \in SeqsUpTo(S, n - 1) : Len(u) = n - 1},
                              x \in S}

Manifests(e) == SeqsUpTo({e, EntryData}, MaxToc) \ {<<>>}

(* ------------------------------ the state ----------------------------- *)

Procs == {1, 2}

VARIABLES
    toc,        \* the manifest every call is given
    optimize,   \* sys.flags.optimize
    fs,         \* the files
    dirs,       \* the directories
    wdirs,      \* the directories in which files and directories can be made
    now,        \* the clock
    pc,         \* where each process is
    runs,       \* the calls each process may still make
    idx,        \* the entry of toc the loop is at
    new_toc,    \* the list being built
    loc,        \* src_fnm, obj_fnm, ext, leading, mod_name
    exc,        \* the exception a call ended with
    calls,      \* history: the py_compile.compile calls of the current call
    prev,       \* history: how the previous call of the process ended
    start,      \* history: the files and directories when the call began
    obs         \* history: what the last staleness tests saw and did

vars == <<toc, optimize, fs, dirs, wdirs, now, pc, runs, idx, new_toc, loc,
          exc, calls, prev, start, obs>>

NoLoc == [src_fnm |-> <<>>, obj_fnm |-> <<>>, ext |-> <<>>,
          leading |-> <<>>, mod_name |-> <<>>]

NoTest == [at |-> 0, src |-> <<>>, obj |-> <<>>, there |-> FALSE,
           srcm |-> 0, objm |-> 0, head |-> <<>>, needs |-> "none",
           res |-> "none", why |-> "none", dst |-> <<>>]

NoObs == [inplace |-> NoTest, local |-> NoTest, redir |-> FALSE,
          made |-> FALSE]

NoPrev == [ended |-> "none", out |-> <<>>]

\* what a staleness test at entry i saw, and the compile that followed
Test(i, f, src, obj, c, dst) ==
    [at |-> i, src |-> src, obj |-> obj, there |-> obj \in DOMAIN f,
     srcm |-> mtime(f, src), objm |-> mtime(f, obj),
     head |-> IF obj \in DOMAIN f THEN FirstFour(f[obj]) ELSE <<>>,
     needs |-> needs_compile(f, src, obj),
     res |-> IF needs_compile(f, src, obj) = "yes" THEN c.res ELSE "none",
     why |-> IF needs_compile(f, src, obj) = "yes" THEN c.why ELSE "none",
     dst |-> IF needs_compile(f, src, obj) = "yes" THEN dst ELSE <<>>]

InitDisk(e) ==
    /\ optimize \in BOOLEAN
    /\ \E w \in BOOLEAN, cached \in BOOLEAN :
         /\ fs \in {d \in Disks(e, w) :
                      cached \/ DOMAIN d \cap CacheNames(e) = {}}
         /\ dirs = Ancestors(Dirname(e[2])) \cup Ancestors(WorkPath)
                   \cup (IF cached THEN Ancestors(CacheDir(e)) ELSE {})
         /\ wdirs = Ancestors(basepath) \cup Ancestors(CacheDir(e))
                    \cup (IF w THEN {Dirname(e[2])} ELSE {})
    /\ now = MaxMtime

InitProcs(r) ==
    /\ pc = [p \in Procs |-> "idle"]
    /\ runs = r
    /\ idx = [p \in Procs |-> 0]
    /\ new_toc = [p \in Procs |-> <<>>]
    /\ loc = [p \in Procs |-> NoLoc]
    /\ exc = [p \in Procs |-> "none"]
    /\ calls = [p \in Procs |-> <<>>]
    /\ prev = [p \in Procs |-> NoPrev]
    /\ start = [p \in Procs |-> [fs |-> fs, dirs |-> dirs]]
    /\ obs = [p \in Procs |-> NoObs]

\* one process calling compile_py_files MaxRuns times in a row
Init ==
    /\ \E e \in CodeEntries : toc \in Manifests(e) /\ InitDisk(e)
    /\ InitProcs([p \in Procs |-> IF p = 1 THEN MaxRuns ELSE 0])

(* ----------------------------- the steps ------------------------------ *)

\* line 195: an entry that is not a module is copied
Unchanged(nm, fnm, typ) == <<nm, fnm, typ>>

\* line 261
Resolved(nm, obj_fnm, typ) == <<nm, obj_fnm, typ>>

\* the kind test left out: every entry is taken for a module
IsModule_always(typ) == TRUE

\* line 194
IsModule(typ) == typ = PYMODULE

\* lines 188-191: compile_py_files(toc, workpath) is entered
Call(p) ==
    /\ pc[p] \in {"idle", "done"}
    /\ runs[p] > 0
    /\ runs' = [runs EXCEPT ![p] = @ - 1]
    /\ now' = now + 1
    /\ pc' = [pc EXCEPT ![p] = "loop"]
    /\ idx' = [idx EXCEPT ![p] = 1]
    /\ prev' = [prev EXCEPT ![p] =
                   IF pc[p] = "done"
                   THEN [ended |-> "done", out |-> new_toc[p]]
                   ELSE NoPrev]
    /\ new_toc' = [new_toc EXCEPT ![p] = <<>>]
    /\ calls' = [calls EXCEPT ![p] = <<>>]
    /\ start' = [start EXCEPT ![p] = [fs |-> fs, dirs |-> dirs]]
    /\ obs' = [obs EXCEPT ![p] = NoObs]
    /\ loc' = [loc EXCEPT ![p] = NoLoc]
    /\ UNCHANGED <<toc, optimize, fs, dirs, wdirs, exc>>

\* lines 192-196: an entry of another kind
PassThrough(p) ==
    /\ pc[p] = "loop"
    /\ idx[p] <= Len(toc)
    /\ ~IsModule(toc[idx[p]][3])
    /\ new_toc' = [new_toc EXCEPT ![p] =
                      Append(@, Unchanged(toc[idx[p]][1], toc[idx[p]][2],
                                          toc[idx[p]][3]))]
    /\ idx' = [idx EXCEPT ![p] = @ + 1]
    /\ UNCHANGED <<toc, optimize, fs, dirs, wdirs, now, pc, runs, loc, exc,
                   calls, prev, start, obs>>

\* lines 192-231 and 260-261: a module; the paths, the staleness test and
\* the compile beside the source
Resolve(p) ==
    /\ pc[p] = "loop"
    /\ idx[p] <= Len(toc)
    /\ IsModule(toc[idx[p]][3])
    /\ LET nm   == toc[idx[p]][1]
           fnm  == toc[idx[p]][2]
           typ  == toc[idx[p]][3]
           d    == DerivePaths(fs, dirs, optimize, fnm)
           nc   == needs_compile(fs, d.src, d.obj)
           c    == py_compile(fs, dirs, wdirs, now, d.src, d.obj)
       IN  /\ obs' = [obs EXCEPT ![p].inplace =
                         Test(idx[p], fs, d.src, d.obj, c, d.obj),
                                 ![p].local = NoTest,
                                 ![p].redir = FALSE,
                                 ![p].made = FALSE]
           /\ loc' = [loc EXCEPT ![p] =
                         [NoLoc EXCEPT !.src_fnm = d.src, !.obj_fnm = d.obj]]
           /\ CASE nc = "raise" ->
                     /\ pc' = [pc EXCEPT ![p] = "raised"]
                     /\ exc' = [exc EXCEPT ![p] = "IOError"]
                     /\ UNCHANGED <<fs, calls, new_toc, idx>>
                [] nc = "no" ->
                     /\ new_toc' = [new_toc EXCEPT ![p] =
                                       Append(@, Resolved(nm, d.obj, typ))]
                     /\ idx' = [idx EXCEPT ![p] = @ + 1]
                     /\ UNCHANGED <<fs, calls, pc, exc>>
                [] nc = "yes" /\ c.res = "IOError" ->
                     /\ calls' = [calls EXCEPT ![p] = Append(@, <<idx[p], d.src, d.obj>>)]
                     /\ pc' = [pc EXCEPT ![p] = "redirect"]
                     /\ UNCHANGED <<fs, new_toc, idx, exc>>
                [] OTHER ->
                     /\ calls' = [calls EXCEPT ![p] = Append(@, <<idx[p], d.src, d.obj>>)]
                     /\ fs' = c.fs
                     /\ new_toc' = [new_toc EXCEPT ![p] =
                                       Append(@, Resolved(nm, d.obj, typ))]
                     /\ idx' = [idx EXCEPT ![p] = @ + 1]
                     /\ UNCHANGED <<pc, exc>>
    /\ UNCHANGED <<toc, optimize, dirs, wdirs, now, runs, prev, start>>

\* lines 230-248: the IOError is caught; the local directory is named and
\* looked for
Redirect(p) ==
    /\ pc[p] = "redirect"
    /\ LET nm == toc[idx[p]][1]
           l  == Leading(nm, loc[p].obj_fnm)
       IN  /\ loc' = [loc EXCEPT ![p].ext = SplitExt(loc[p].obj_fnm),
                                 ![p].leading = l,
                                 ![p].mod_name = ModName(nm, loc[p].obj_fnm)]
           /\ pc' = [pc EXCEPT ![p] =
                        IF ~PathExists(fs, dirs, l) THEN "makedirs"
                        ELSE "recheck"]
           /\ obs' = [obs EXCEPT ![p].redir = TRUE]
    /\ UNCHANGED <<toc, optimize, fs, dirs, wdirs, now, runs, idx, new_toc,
                   exc, calls, prev, start>>

\* line 249: os.makedirs(leading) makes the missing directories above
\* leading and then leading itself, and raises OSError when leading exists
\* or a directory cannot be made
MakeDirs(p) ==
    /\ pc[p] = "makedirs"
    /\ LET l       == loc[p].leading
           missing == Ancestors(l) \ dirs
           top     == CHOOSE d \in missing :
                          \A x \in missing : Len(d) <= Len(x)
       IN  IF PathExists(fs, dirs, l) \/ Dirname(top) \notin wdirs
           THEN /\ pc' = [pc EXCEPT ![p] = "raised"]
                /\ exc' = [exc EXCEPT ![p] =
                              IF PathExists(fs, dirs, l) THEN "OSError:EEXIST"
                              ELSE "OSError:EACCES"]
                /\ UNCHANGED <<dirs, wdirs, obs>>
           ELSE /\ dirs' = dirs \cup missing
                /\ wdirs' = wdirs \cup missing
                /\ obs' = [obs EXCEPT ![p].made = TRUE]
                /\ pc' = [pc EXCEPT ![p] = "recheck"]
                /\ UNCHANGED exc
    /\ UNCHANGED <<toc, optimize, fs, now, runs, idx, new_toc, loc, calls,
                   prev, start>>

\* lines 251-261: the staleness test on the file in the local directory
\* and the second compile
Recheck(p) ==
    /\ pc[p] = "recheck"
    /\ LET nm   == toc[idx[p]][1]
           fnm  == toc[idx[p]][2]
           typ  == toc[idx[p]][3]
           src  == loc[p].src_fnm
           obj  == Join2(loc[p].leading, loc[p].mod_name \o loc[p].ext)
           dst  == RedirectDest(fnm, obj)
           nc   == needs_compile(fs, src, obj)
           c    == py_compile(fs, dirs, wdirs, now, src, dst)
       IN  /\ obs' = [obs EXCEPT ![p].local = Test(idx[p], fs, src, obj, c, dst)]
           /\ loc' = [loc EXCEPT ![p].obj_fnm = obj]
           /\ CASE nc = "raise" ->
                     /\ pc' = [pc EXCEPT ![p] = "raised"]
                     /\ exc' = [exc EXCEPT ![p] = "IOError"]
                     /\ UNCHANGED <<fs, calls, new_toc, idx>>
                [] nc = "no" ->
                     /\ new_toc' = [new_toc EXCEPT ![p] =
                                       Append(@, Resolved(nm, obj, typ))]
                     /\ idx' = [idx EXCEPT ![p] = @ + 1]
                     /\ pc' = [pc EXCEPT ![p] = "loop"]
                     /\ UNCHANGED <<fs, calls, exc>>
                [] nc = "yes" /\ c.res = "IOError" ->
                     /\ calls' = [calls EXCEPT ![p] = Append(@, <<idx[p], src, dst>>)]
                     /\ pc' = [pc EXCEPT ![p] = "raised"]
                     /\ exc' = [exc EXCEPT ![p] = "IOError"]
                     /\ UNCHANGED <<fs, new_toc, idx>>
                [] OTHER ->
                     /\ calls' = [calls EXCEPT ![p] = Append(@, <<idx[p], src, dst>>)]
                     /\ fs' = c.fs
                     /\ new_toc' = [new_toc EXCEPT ![p] =
                                       Append(@, Resolved(nm, obj, typ))]
                     /\ idx' = [idx EXCEPT ![p] = @ + 1]
                     /\ pc' = [pc EXCEPT ![p] = "loop"]
                     /\ UNCHANGED exc
    /\ UNCHANGED <<toc, optimize, dirs, wdirs, now, runs, prev, start>>

\* line 263: return new_toc
Return(p) ==
    /\ pc[p] = "loop"
    /\ idx[p] > Len(toc)
    /\ pc' = [pc EXCEPT ![p] = "done"]
    /\ UNCHANGED <<toc, optimize, fs, dirs, wdirs, now, runs, idx, new_toc,
                   loc, exc, calls, prev, start, obs>>

Next ==
    \E p \in Procs :
        \/ Call(p)
        \/ PassThrough(p)
        \/ Resolve(p)
        \/ Redirect(p)
        \/ MakeDirs(p)
        \/ Recheck(p)
        \/ Return(p)

Spec == Init /\ [][Next]_vars

\* two processes, each calling compile_py_files once with the same workpath
InitRace ==
    /\ \E e \in CodeEntries : toc \in {<<e>>, <<EntryData, e>>} /\ InitDisk(e)
    /\ InitProcs([p \in Procs |-> 1])

SpecRace == InitRace /\ [][Next]_vars

(* ------------------------------ properties ---------------------------- *)

Returned(p) == pc[p] = "done"
Ended(p)    == pc[p] \in {"done", "raised"}

\* the py_compile.compile calls made for entry i by process p
CallsFor(p, i) == {k \in 1..Len(calls[p]) : calls[p][k][1] = i}

\* the emitted path lies in the local directory <workpath>/localpycos
InLocalDir(path) ==
    /\ Len(path) > Len(basepath)
    /\ SubSeq(path, 1, Len(basepath)) = basepath

\* no source text on the disk is malformed: every compile either writes its
\* destination or raises IOError
SoundSources == \A n \in DOMAIN fs : fs[n].data # "bad"

\* C1: whenever compile_py_files returns, every PYMODULE entry of the
\* returned list has its kind unchanged and a path naming a file that then
\* exists, is not older than the module's source and starts with the
\* current magic tag.  (Stated for disks whose sources are well formed.)
C1_ArtifactGuarantee ==
    \A p \in Procs :
        (Returned(p) /\ SoundSources) =>
            \A i \in 1..Len(toc) :
                toc[i][3] = PYMODULE =>
                    /\ i <= Len(new_toc[p])
                    /\ new_toc[p][i][3] = toc[i][3]
                    /\ new_toc[p][i][2] \in DOMAIN fs
                    /\ fs[new_toc[p][i][2]].mtime >= mtime(fs, SourceName(toc[i]))
                    /\ FirstFour(fs[new_toc[p][i][2]]) = CurMagic

\* C2: a second call on the same manifest and workpath, after a first call
\* that returned, makes no py_compile.compile call, does not raise and
\* returns the list the first call returned.  (Stated for disks whose
\* sources were well formed when the second call began.)
C2_Idempotence ==
    \A p \in Procs :
        (prev[p].ended = "done"
         /\ \A n \in DOMAIN start[p].fs : start[p].fs[n].data # "bad") =>
            /\ calls[p] = <<>>
            /\ pc[p] # "raised"
            /\ Returned(p) => new_toc[p] = prev[p].out

\* C3: ("a.b", "/ro/a/b.py") with a sound source in a directory that is not
\* writable and no bytecode file beside it or in the local directory: the
\* call returns, the entry comes back as
\* ("a.b", <workpath>/localpycos/a/b.py + the suffix of the run, PYMODULE)
\* and that file exists and starts with the current magic tag.
C3_Expected ==
    Join2(CacheDir(EntryLeaf), <<"b">> \o DotPy \o ObjSuffix(optimize))

C3_Pre(p) ==
    /\ toc = <<EntryLeaf>>
    /\ SourceName(EntryLeaf) \in DOMAIN start[p].fs
    /\ start[p].fs[SourceName(EntryLeaf)].data = "ok"
    /\ start[p].fs[SourceName(EntryLeaf)].mtime > 0
    /\ DOMAIN start[p].fs = {SourceName(EntryLeaf)}
    /\ Dirname(EntryLeaf[2]) \notin wdirs

C3_ReadOnlyRedirect ==
    \A p \in Procs :
        (C3_Pre(p) /\ Ended(p)) =>
            /\ Returned(p)
            /\ new_toc[p] = << <<EntryLeaf[1], C3_Expected, PYMODULE>> >>
            /\ C3_Expected \in DOMAIN fs
            /\ FirstFour(fs[C3_Expected]) = CurMagic

\* C4: no process fails because the directory it is about to make in the
\* local directory already exists.
C4_MakeDirsSafe ==
    \A p \in Procs : exc[p] # "OSError:EEXIST"

\* C5: when the bytecode file the staleness test looks at does not exist,
\* the test says "compile" (it does not raise and does not say "fresh")
\* and a compile of the source is attempted, whatever the source's mtime.
C5_MissingIsStale ==
    \A p \in Procs :
        \A t \in {obs[p].inplace, obs[p].local} :
            (t.at > 0 /\ ~t.there) =>
                /\ t.needs = "yes"
                /\ \E k \in CallsFor(p, t.at) : calls[p][k][2] = t.src

\* C6: the local directory is turned to exactly when the compile beside
\* the source failed because its destination could not be written; any
\* other failure of that compile ends the call with an error, no
\* directory made and no second compile.  (Stated for disks whose sources
\* are well formed.)
C6_OnlyPermissionRedirects ==
    \A p \in Procs :
        LET t == obs[p].inplace
            entered == pc[p] = "redirect" \/ obs[p].redir
        IN  (t.at > 0 /\ SoundSources) =>
                /\ entered <=> (t.res = "IOError" /\ t.why = "dest")
                /\ (t.res = "quiet" \/ (t.res = "IOError" /\ t.why # "dest")) =>
                       /\ pc[p] = "raised"
                       /\ ~obs[p].made
                       /\ obs[p].local.at = 0

\* the file base name of a path, without its extension
Stem(path) ==
    LET seps == Positions(path, "/")
        base == IF seps = {} THEN 0 ELSE SetMax(seps)
    IN  SubSeq(path, base + 1, Len(path) - Len(SplitExt(path)))

\* C7: a redirected entry of a module s1.s2...sk whose file is not named
\* __init__ is emitted as <workpath>/localpycos/s1/.../s(k-1)/sk<suffix>.
C7_LeafNaming ==
    \A p \in Procs :
        \A i \in 1..Len(new_toc[p]) :
            LET parts == Split(toc[i][1], ".")
                path  == new_toc[p][i][2]
            IN  (toc[i][3] = PYMODULE /\ InLocalDir(path)
                 /\ Stem(toc[i][2]) # InitName) =>
                    path = Join2(JoinAll(basepath, DropLast(parts)),
                                 parts[Len(parts)] \o SplitExt(path))

\* process p takes a step
Steps(p) ==
    <<pc[p], idx[p], new_toc[p], loc[p], obs[p], calls[p]>>'
        # <<pc[p], idx[p], new_toc[p], loc[p], obs[p], calls[p]>>

C8_Shape ==
    \A p \in Procs :
        Returned(p) =>
            /\ Len(new_toc[p]) = Len(toc)
            /\ \A i \in 1..Len(toc) :
                   /\ new_toc[p][i][1] = toc[i][1]
                   /\ new_toc[p][i][3] = toc[i][3]
                   /\ toc[i][3] # PYMODULE => new_toc[p][i] = toc[i]

C8_NoEffect ==
    \A p \in Procs :
        (/\ pc[p] = "loop"
         /\ idx[p] <= Len(toc)
         /\ toc[idx[p]][3] # PYMODULE
         /\ Steps(p)) =>
            /\ fs' = fs /\ dirs' = dirs /\ wdirs' = wdirs
            /\ calls'[p] = calls[p]
            /\ obs'[p] = obs[p]
            /\ pc'[p] = "loop"
            /\ new_toc'[p] = Append(new_toc[p], toc[idx[p]])

\* C8: whenever compile_py_files returns, the returned list is as long as
\* the manifest, every entry keeps its name and kind at its index, and an
\* entry that is not PYMODULE comes back identical; handling such an entry
\* reads and writes no file, makes no directory and calls no compiler.
C8_ShapePreserved == [](C8_Shape) /\ [][C8_NoEffect]_vars

\* a returned manifest that mixes a pass-through entry with a module whose
\* path was changed
C8_Witness ==
    \E p \in Procs :
        /\ Returned(p)
        /\ \E i, j \in 1..Len(toc) :
               /\ toc[i][3] = DATA
               /\ toc[j][3] = PYMODULE
               /\ new_toc[p][j][2] # toc[j][2]
               /\ InLocalDir(new_toc[p][j][2])

\* C9: a bytecode file that exists and is not older than its source is
\* compiled again into the same path when its first 4 bytes are not the
\* current magic tag; when they are, no compile is made for the entry and
\* the entry is emitted with that path.
C9_MagicPrecedence ==
    \A p \in Procs :
        LET t == obs[p].inplace
        IN  (t.at > 0 /\ t.there /\ t.objm >= t.srcm) =>
                /\ t.src = SourceName(toc[t.at])
                /\ t.obj \in InPlaceNames(toc[t.at])
                /\ t.head # CurMagic =>
                       /\ t.needs = "yes"
                       /\ \E k \in CallsFor(p, t.at) :
                              calls[p][k] = <<t.at, t.src, t.obj>>
                /\ t.head = CurMagic =>
                       /\ t.needs = "no"
                       /\ CallsFor(p, t.at) = {}
                       /\ Len(new_toc[p]) >= t.at
                       /\ new_toc[p][t.at] = <<toc[t.at][1], t.obj, PYMODULE>>

\* a bytecode file newer than its source, carrying another magic tag, has
\* been compiled again in place
C9_Witness ==
    \E p \in Procs :
        LET t == obs[p].inplace
        IN  /\ t.at > 0 /\ t.there
            /\ t.srcm > 0 /\ t.objm > t.srcm
            /\ t.head = OldMagic
            /\ t.res = "ok"
            /\ t.obj \in DOMAIN fs
            /\ FirstFour(fs[t.obj]) = CurMagic

\* C10: every compile made for an entry writes to the entry's bytecode
\* path beside the source or, after a redirect, to the path in the local
\* directory that is then emitted; never to a path ending in ".py".
C10_Destinations ==
    \A p \in Procs :
        /\ \A k \in 1..Len(calls[p]) :
               /\ ~EndsWith(calls[p][k][3], DotPy)
               /\ calls[p][k][1] = obs[p].inplace.at =>
                      calls[p][k][3] \in
                          {obs[p].inplace.obj}
                          \cup (IF obs[p].local.at = calls[p][k][1]
                                THEN {obs[p].local.obj} ELSE {})
        /\ obs[p].local.needs = "yes" => obs[p].local.dst = obs[p].local.obj

=============================================================================
